---------------------------- MODULE Spec2Model ----------------------------
(***************************************************************************)
(* Tiered gateway authentication, client construction, base-URL and       *)
(* fence normalisation, completion calls, retried generation, bounded      *)
(* batch speech generation and the module-level client accessor, as        *)
(* implemented five times in the repository:                               *)
(*   ct   code-translation/api/services/api_client.py     APIClient        *)
(*   ds   doc-summarization/backend/api_client.py         APIClient        *)
(*   rag  rag-chatbot/api/services/api_client.py          APIClient        *)
(*   llm  pdf-podcast/api/llm-service/app/core/llm_client.py  LLMClient    *)
(*   tts  pdf-podcast/api/tts-service/app/core/tts_client.py  TTSClient    *)
(*                                                                         *)
(* Strings that the code only tests for truthiness or copies are TLA+      *)
(* strings ("" is the empty string, None is Python's None).  URLs are      *)
(* sequences of characters so that rstrip, endswith and concatenation are  *)
(* computed; a one-element chunk such as "h" or "token" stands for a run   *)
(* of characters none of which is "/".                                     *)
(***************************************************************************)
EXTENDS Naturals, Integers, Sequences, FiniteSets, TLC

VARIABLES
    variant,    \* which of the five client classes this instance is
    config,     \* the configuration the instance is constructed from
    pc,         \* "new" | "ready" (constructed) | "raised" (constructor raised)
    self,       \* the instance's fields
    reply,      \* <<>> or <<r>>: the token endpoint's answer to this instance
    http_log,   \* the token URLs requests.post was called with, in order
    tiers,      \* the fallback tiers consulted by the constructor, in order
    ret,        \* <<>> or <<c>>: the client returned by the last factory call
    err,        \* exception raised by the last operation, or None
    gen,        \* a generation call (generate_with_openai under tenacity's retry)
    batch,      \* TTSClient.generate_speech_batch
    fn,         \* applications of a pure function to one input, in order
    glob,       \* the module-level _api_client and the threads calling get_api_client
    probe       \* <<>> or <<b>>: what the last is_authenticated / is_available returned

vars ==
    <<variant, config, pc, self, reply, http_log, tiers, ret, err, gen, batch, fn, glob, probe>>

authVars == <<variant, config, pc, self, reply, http_log, tiers, ret, err>>

---------------------------------------------------------------------------
(* Values *)

None == "<None>"

\* Python truthiness of an Optional[str]
Truthy(s) == s # None /\ s # ""

\* Python truthiness of a URL string
UrlTruthy(u) == Len(u) > 0

RECURSIVE RStrip(_)
\* str.rstrip("/")
RStrip(u) ==
    IF Len(u) > 0 /\ u[Len(u)] = "/" THEN RStrip(SubSeq(u, 1, Len(u) - 1)) ELSE u

RECURSIVE LStrip(_)
\* str.lstrip("/")
LStrip(u) ==
    IF Len(u) > 0 /\ u[1] = "/" THEN LStrip(SubSeq(u, 2, Len(u))) ELSE u

\* str.strip("/")
Strip(u) == LStrip(RStrip(u))

\* str.endswith("/v1")
EndsWithV1(u) == Len(u) >= 3 /\ SubSeq(u, Len(u) - 2, Len(u)) = <<"/", "v", "1">>

Variants == {"ct", "ds", "rag", "llm", "tts"}

\* BASE_URL / TTS_BASE_URL values; <<>> is unset (None or "")
BaseUrls ==
    { <<>>, <<"/">>, <<"h">>, <<"h", "/">>, <<"h", "/", "v", "1">> }

ClientIds == {"", "api"}
ClientSecrets == {"", "s3cret"}
StaticKeys == {"", "K"}
ArgKeys == {"", "A"}

\* What the token endpoint does with one POST: the call raises (network
\* error, timeout, undecodable body), or answers with a status and a JSON
\* body whose access_token is absent (None), empty or a token.
Replies ==
    { [kind |-> "exc",  status |-> 0,   access_token |-> None],
      [kind |-> "http", status |-> 401, access_token |-> None],
      [kind |-> "http", status |-> 200, access_token |-> None],
      [kind |-> "http", status |-> 200, access_token |-> ""],
      [kind |-> "http", status |-> 200, access_token |-> "T"] }

Configs ==
    [ base_url : BaseUrls, kc_id : ClientIds, kc_secret : ClientSecrets,
      static_key : StaticKeys, arg_key : ArgKeys ]

NoClient == <<>>

OpenAI(key, url) == << [api_key |-> key, base_url |-> url] >>

\* the result of running a constructor: the fields, the token URLs it posted
\* to, the answer it got, the fallback tiers it consulted and the exception it
\* raised
Outcome(s, h, a, t, e) == [self |-> s, http |-> h, reply |-> a, tiers |-> t, err |-> e]

\* the fields every class keeps (token: ct and ds only; client: llm and tts only)
Fields(b, t, k, m, c) ==
    [base_url |-> b, token |-> t, api_key |-> k, auth_mode |-> m, client |-> c]

TokenPath == <<"/", "token">>

\* response.status_code == 200, inside the try
Is200(r) == r.kind = "http" /\ r.status = 200


\* requests.post(url, ...): a URL without a scheme and host (empty, or starting
\* with "/") raises before anything is sent; otherwise the endpoint decides
Post(url, r) ==
    IF Len(url) > 0 /\ url[1] # "/" THEN r
    ELSE [kind |-> "exc", status |-> 0, access_token |-> None]

---------------------------------------------------------------------------
(* code-translation: APIClient.__init__ and _init_auth *)

\* CT_init_auth, with the static key tried before Keycloak
CT_init_auth_key_first(cfg, r) ==
    LET s0 == Fields(cfg.base_url, None, cfg.static_key, "open", NoClient)
        tier1 == UrlTruthy(s0.base_url) /\ Truthy(cfg.kc_id) /\ Truthy(cfg.kc_secret)
        token_url == RStrip(s0.base_url) \o TokenPath
        a == Post(token_url, r)
        s1 == IF tier1 /\ Is200(a) THEN [s0 EXCEPT !.token = a.access_token] ELSE s0
    IN  IF Truthy(s0.api_key)
        THEN Outcome([s0 EXCEPT !.auth_mode = "api_key"], <<>>, <<>>, <<"api_key">>, None)
        ELSE IF tier1 /\ Is200(a) /\ Truthy(s1.token)
        THEN Outcome([s1 EXCEPT !.auth_mode = "keycloak"], <<token_url>>, <<a>>,
                     <<"api_key">>, None)
        ELSE Outcome([s1 EXCEPT !.auth_mode = "open"],
                     IF tier1 THEN <<token_url>> ELSE <<>>, IF tier1 THEN <<a>> ELSE <<>>,
                     <<"api_key", "open">>, None)

CT_init_auth(cfg, r) ==
    LET s0 == Fields(cfg.base_url, None, cfg.static_key, "open", NoClient)
        tier1 == UrlTruthy(s0.base_url) /\ Truthy(cfg.kc_id) /\ Truthy(cfg.kc_secret)
        token_url == RStrip(s0.base_url) \o TokenPath
        a == Post(token_url, r)
        http == IF tier1 THEN <<token_url>> ELSE <<>>
        ans == IF tier1 THEN <<a>> ELSE <<>>
        s1 == IF tier1 /\ Is200(a) THEN [s0 EXCEPT !.token = a.access_token] ELSE s0
    IN  IF tier1 /\ Is200(a) /\ Truthy(s1.token)
        THEN Outcome([s1 EXCEPT !.auth_mode = "keycloak"], http, ans, <<>>, None)
        ELSE IF Truthy(s1.api_key)
        THEN Outcome([s1 EXCEPT !.auth_mode = "api_key"], http, ans, <<"api_key">>, None)
        ELSE Outcome([s1 EXCEPT !.auth_mode = "open"], http, ans, <<"api_key", "open">>, None)

(* doc-summarization: APIClient.__init__ and _init_auth *)

DS_init_auth(cfg, r) ==
    LET s0 == Fields(cfg.base_url, None, cfg.static_key, "open", NoClient)
        tier1 == UrlTruthy(s0.base_url) /\ Truthy(cfg.kc_id) /\ Truthy(cfg.kc_secret)
        token_url == s0.base_url \o TokenPath
        a == Post(token_url, r)
        http == IF tier1 THEN <<token_url>> ELSE <<>>
        ans == IF tier1 THEN <<a>> ELSE <<>>
    IN  IF tier1 /\ Is200(a)
        THEN Outcome([s0 EXCEPT !.token = a.access_token, !.auth_mode = "keycloak"],
                     http, ans, <<>>, None)
        ELSE IF Truthy(s0.api_key)
        THEN Outcome([s0 EXCEPT !.auth_mode = "api_key"], http, ans, <<"api_key">>, None)
        ELSE Outcome([s0 EXCEPT !.auth_mode = "open"], http, ans, <<"api_key", "open">>, None)

(* rag-chatbot: APIClient.__init__, _try_keycloak_token and _configure_auth *)

\* RAG_configure_auth asking for a token when either credential is set
RAG_configure_auth_any_cred(cfg, r) ==
    LET s0 == Fields(RStrip(cfg.base_url), None, None, "unconfigured", NoClient)
        creds == Truthy(cfg.kc_id) \/ Truthy(cfg.kc_secret)
        token_url == s0.base_url \o TokenPath
        a == Post(token_url, r)
        http == IF creds THEN <<token_url>> ELSE <<>>
        ans == IF creds THEN <<a>> ELSE <<>>
        token == IF creds /\ Is200(a) /\ Truthy(a.access_token) THEN a.access_token ELSE None
    IN  IF Truthy(token)
        THEN Outcome([s0 EXCEPT !.api_key = token, !.auth_mode = "keycloak"],
                     http, ans, <<>>, None)
        ELSE IF Truthy(cfg.static_key)
        THEN Outcome([s0 EXCEPT !.api_key = cfg.static_key, !.auth_mode = "inference_api_key"],
                     http, ans, <<"api_key">>, None)
        ELSE Outcome(s0, http, ans, <<"api_key">>, "ValueError")

RAG_configure_auth(cfg, r) ==
    LET s0 == Fields(RStrip(cfg.base_url), None, None, "unconfigured", NoClient)
        creds == Truthy(cfg.kc_id) /\ Truthy(cfg.kc_secret)
        token_url == s0.base_url \o TokenPath
        a == Post(token_url, r)
        http == IF creds THEN <<token_url>> ELSE <<>>
        ans == IF creds THEN <<a>> ELSE <<>>
        token == IF creds /\ Is200(a) /\ Truthy(a.access_token) THEN a.access_token ELSE None
    IN  IF Truthy(token)
        THEN Outcome([s0 EXCEPT !.api_key = token, !.auth_mode = "keycloak"],
                     http, ans, <<>>, None)
        ELSE IF Truthy(cfg.static_key)
        THEN Outcome([s0 EXCEPT !.api_key = cfg.static_key, !.auth_mode = "inference_api_key"],
                     http, ans, <<"api_key">>, None)
        ELSE Outcome(s0, http, ans, <<"api_key">>, "ValueError")

(* pdf-podcast llm-service: LLMClient.__init__ and _try_keycloak_token *)

LLM_init(cfg, r) ==
    LET base == IF UrlTruthy(cfg.base_url) THEN RStrip(cfg.base_url) ELSE <<>>
        s0 == Fields(base, None, None, "none", NoClient)
        creds == Truthy(cfg.kc_id) /\ Truthy(cfg.kc_secret)
        token_url == base \o TokenPath
        a == Post(token_url, r)
        http == IF creds THEN <<token_url>> ELSE <<>>
        ans == IF creds THEN <<a>> ELSE <<>>
        token == IF creds /\ Is200(a) /\ Truthy(a.access_token) THEN a.access_token ELSE None
        s1 == IF Truthy(token)
              THEN [s0 EXCEPT !.api_key = token, !.auth_mode = "keycloak"] ELSE s0
        \* "not self.api_key and ...INFERENCE_API_KEY": the key is read only when
        \* no token was obtained
        consult == ~Truthy(s1.api_key)
        s2 == IF consult /\ Truthy(cfg.static_key)
              THEN [s1 EXCEPT !.api_key = cfg.static_key, !.auth_mode = "inference_api_key"]
              ELSE s1
        t == IF consult THEN <<"api_key">> ELSE <<>>
    IN  IF ~UrlTruthy(base) THEN Outcome(s0, <<>>, <<>>, <<>>, None)
        ELSE IF ~Truthy(s2.api_key) THEN Outcome(s2, http, ans, t, None)
        ELSE Outcome([s2 EXCEPT !.client = OpenAI(s2.api_key, base \o <<"/", "v", "1">>)],
                     http, ans, t, None)

(* pdf-podcast tts-service: TTSClient.__init__ and _try_keycloak_token.      *)
(* cfg.base_url is "base_url or settings.TTS_BASE_URL", cfg.arg_key the      *)
(* constructor's api_key argument, cfg.static_key settings.TTS_API_KEY.      *)

\* api_key or settings.TTS_API_KEY
TTS_static_key(cfg) == IF Truthy(cfg.arg_key) THEN cfg.arg_key ELSE cfg.static_key

TTS_final_base_always_append(base_url) == RStrip(base_url) \o <<"/", "v", "1">>

\* lines 40-45: the base URL the OpenAI client is bound to
TTS_final_base(base_url) ==
    LET base == RStrip(base_url)
    IN  IF EndsWithV1(base) THEN base ELSE base \o <<"/", "v", "1">>

TTS_init(cfg, r) ==
    LET s0 == Fields(cfg.base_url, None, None, "none", NoClient)
        base == RStrip(cfg.base_url)
        final_base == TTS_final_base(cfg.base_url)
        creds == Truthy(cfg.kc_id) /\ Truthy(cfg.kc_secret)
        token_url == RStrip(base) \o TokenPath
        a == Post(token_url, r)
        http == IF creds THEN <<token_url>> ELSE <<>>
        ans == IF creds THEN <<a>> ELSE <<>>
        token == IF creds /\ Is200(a) /\ Truthy(a.access_token) THEN a.access_token ELSE None
        s1 == IF Truthy(token)
              THEN [s0 EXCEPT !.api_key = token, !.auth_mode = "keycloak"] ELSE s0
        consult == ~Truthy(s1.api_key)
        s2 == IF consult /\ Truthy(TTS_static_key(cfg))
              THEN [s1 EXCEPT !.api_key = TTS_static_key(cfg), !.auth_mode = "tts_api_key"]
              ELSE s1
        t == IF consult THEN <<"api_key">> ELSE <<>>
    IN  IF ~UrlTruthy(cfg.base_url) THEN Outcome(s0, <<>>, <<>>, <<>>, None)
        ELSE IF ~Truthy(s2.api_key) THEN Outcome(s2, http, ans, t, None)
        ELSE Outcome([s2 EXCEPT !.client = OpenAI(s2.api_key, final_base)], http, ans, t, None)

---------------------------------------------------------------------------
(* Client factories: what the call returns (<<client>>) or raises *)

Returned(c) == [ret |-> c, err |-> None]
Raised(e) == [ret |-> NoClient, err |-> e]

\* config.INFERENCE_MODEL_ENDPOINT of code-translation, "v1/chat/completions"
CT_ENDPOINT == <<"v", "1", "/", "chat", "/", "completions">>

\* the endpoint of doc-summarization, whose config.py is not in the sources:
\* one chunk without a slash
DS_ENDPOINT == <<"ep">>

\* KeyFor testing the token in the api_key branch too
KeyFor_token_only(s) ==
    IF s.auth_mode = "keycloak" /\ Truthy(s.token) THEN s.token
    ELSE IF s.auth_mode = "api_key" /\ Truthy(s.token) THEN s.api_key
    ELSE "no-auth"

\* the api_key the ct and ds factories pass to OpenAI(...)
KeyFor(s) ==
    IF s.auth_mode = "keycloak" /\ Truthy(s.token) THEN s.token
    ELSE IF s.auth_mode = "api_key" /\ Truthy(s.api_key) THEN s.api_key
    ELSE "no-auth"

\* CT_get_openai_client passing the unset key on instead of the sentinel
CT_get_openai_client_raw_key(s) ==
    LET endpoint_path == Strip(CT_ENDPOINT)
        full_base == IF UrlTruthy(endpoint_path)
                     THEN RStrip(s.base_url) \o <<"/">> \o endpoint_path
                     ELSE RStrip(s.base_url)
        key == IF s.auth_mode = "keycloak" /\ Truthy(s.token) THEN s.token ELSE s.api_key
    IN  IF ~UrlTruthy(s.base_url) THEN Raised("ValueError")
        ELSE Returned(OpenAI(key, full_base))

CT_get_openai_client(s) ==
    LET endpoint_path == Strip(CT_ENDPOINT)
        full_base == IF UrlTruthy(endpoint_path)
                     THEN RStrip(s.base_url) \o <<"/">> \o endpoint_path
                     ELSE RStrip(s.base_url)
    IN  IF ~UrlTruthy(s.base_url) THEN Raised("ValueError")
        ELSE Returned(OpenAI(KeyFor(s), full_base))

DS_get_inference_client(s) ==
    IF ~UrlTruthy(s.base_url) THEN Raised("ValueError")
    ELSE Returned(OpenAI(KeyFor(s),
                         s.base_url \o <<"/">> \o DS_ENDPOINT \o <<"/", "v", "1">>))

RAG_normalize_base(url) == IF EndsWithV1(url) THEN url ELSE url \o <<"/", "v", "1">>

\* the URL the clients of rag-chatbot are bound to, as a function of
\* config.BASE_URL: __init__ strips the slashes, the factories normalise
RAG_client_base(base_url) == RAG_normalize_base(RStrip(base_url))

\* config.EMBEDDINGS_BASE_URL of rag-chatbot, whose config.py is not in the
\* sources: one chunk without a slash
EMBEDDINGS_BASE_URL == <<"e">>

RAG_get_embedding_client(s) ==
    Returned(OpenAI(s.api_key, RAG_normalize_base(RStrip(EMBEDDINGS_BASE_URL))))

RAG_get_inference_client(s) ==
    Returned(OpenAI(s.api_key, RAG_normalize_base(s.base_url)))

---------------------------------------------------------------------------
(* Exceptions of a generation call: the type, the attempt that raised it    *)
(* and, for tenacity's RetryError, the type of the exception it wraps       *)

Exc(type, attempt) == [type |-> type, attempt |-> attempt, wraps |-> ""]

NoExc == Exc("", 0)

\* tenacity.RetryError(last_attempt), raised "from" the last attempt's exception
RetryError(last) == [type |-> "RetryError", attempt |-> last.attempt, wraps |-> last.type]

---------------------------------------------------------------------------
(* One client instance: construction, then factory calls *)

\* no generation call and no batch run has been made
GenIdle ==
    [f |-> "", status |-> "idle", attempts |-> <<>>, result |-> None, error |-> NoExc]

BatchIdle ==
    [status |-> "idle", texts |-> <<>>, voices |-> <<>>, limit |-> 0, permits |-> 0,
     output_paths |-> <<>>, tasks |-> <<>>, files |-> <<>>, result |-> <<>>,
     error |-> NoExc, out_of_order |-> FALSE, late_start |-> FALSE, late_done |-> FALSE]

\* no pure function has been applied
FnIdle == [f |-> "", args |-> <<>>, values |-> <<>>]

\* get_api_client has not been called: _api_client is None
GlobIdle == [api_client |-> <<>>, resolutions |-> 0, constructed |-> 0, callers |-> <<>>]

\* is_authenticated / is_available has not been called
NoProbe == <<>>

\* only TTSClient's constructor has an api_key argument
ConfigsOf(v) == {c \in Configs : v # "tts" => c.arg_key = ""}

InitInstance(vs, cs) ==
    /\ variant \in vs
    /\ config \in {c \in ConfigsOf(variant) : c \in cs}
    /\ pc = "new"
    /\ self = Fields(<<>>, None, None, "", NoClient)
    /\ reply = <<>>
    /\ http_log = <<>>
    /\ tiers = <<>>
    /\ ret = NoClient
    /\ err = None
    /\ gen = GenIdle
    /\ batch = BatchIdle
    /\ fn = FnIdle
    /\ glob = GlobIdle
    /\ probe = NoProbe

\* the constructor of class v runs to its end: it returns or it raises
Construct(v, out) ==
    /\ pc = "new"
    /\ variant = v
    /\ pc' = IF out.err = None THEN "ready" ELSE "raised"
    /\ self' = out.self
    /\ reply' = out.reply
    /\ http_log' = http_log \o out.http
    /\ tiers' = out.tiers
    /\ err' = out.err
    /\ UNCHANGED <<variant, config, ret, gen, batch, fn, glob, probe>>

CT_Construct == \E r \in Replies : Construct("ct", CT_init_auth(config, r))

DS_Construct == \E r \in Replies : Construct("ds", DS_init_auth(config, r))

RAG_Construct == \E r \in Replies : Construct("rag", RAG_configure_auth(config, r))

LLM_Construct == \E r \in Replies : Construct("llm", LLM_init(config, r))

TTS_Construct == \E r \in Replies : Construct("tts", TTS_init(config, r))

\* Factory, the call resolving the mode again
Factory_reresolve(v, out) ==
    /\ pc = "ready"
    /\ variant = v
    /\ ret' = out.ret
    /\ err' = out.err
    /\ self' = [self EXCEPT !.auth_mode = "open"]
    /\ UNCHANGED <<variant, config, pc, reply, http_log, tiers, gen, batch, fn, glob, probe>>

\* a factory call on a constructed instance
Factory(v, out) ==
    /\ pc = "ready"
    /\ variant = v
    /\ ret' = out.ret
    /\ err' = out.err
    /\ UNCHANGED <<variant, config, pc, self, reply, http_log, tiers, gen, batch, fn, glob, probe>>

CT_GetClient == Factory("ct", CT_get_openai_client(self))

DS_GetClient == Factory("ds", DS_get_inference_client(self))

RAG_GetClient == Factory("rag", RAG_get_inference_client(self))

RAG_GetEmbeddingClient == Factory("rag", RAG_get_embedding_client(self))

(* The predicates of an instance *)

CT_is_authenticated(s) ==
    \/ s.auth_mode = "keycloak" /\ Truthy(s.token)
    \/ s.auth_mode = "api_key" /\ Truthy(s.api_key)

DS_is_authenticated(s) == s.auth_mode \in {"keycloak", "api_key"}

LLM_is_available(s) == s.client # NoClient

TTS_is_available(s) == s.client # NoClient

\* a predicate call on a constructed instance
Predicate(v, b) ==
    /\ pc = "ready"
    /\ variant = v
    /\ probe' = <<b>>
    /\ UNCHANGED <<authVars, gen, batch, fn, glob>>

CT_IsAuthenticated == Predicate("ct", CT_is_authenticated(self))

DS_IsAuthenticated == Predicate("ds", DS_is_authenticated(self))

LLM_IsAvailable == Predicate("llm", LLM_is_available(self))

TTS_IsAvailable == Predicate("tts", TTS_is_available(self))

Init == InitInstance(Variants, Configs)

Next ==
    \/ CT_Construct
    \/ DS_Construct
    \/ RAG_Construct
    \/ LLM_Construct
    \/ TTS_Construct
    \/ CT_GetClient
    \/ DS_GetClient
    \/ RAG_GetClient
    \/ RAG_GetEmbeddingClient
    \/ CT_IsAuthenticated
    \/ DS_IsAuthenticated
    \/ LLM_IsAvailable
    \/ TTS_IsAvailable

Spec == Init /\ [][Next]_vars

---------------------------------------------------------------------------
(* Properties of auth resolution *)

Constructed == pc # "new"

\* the constructor posted to the token endpoint and got HTTP 200 with a
\* non-empty access_token
TokenGranted == reply # <<>> /\ Is200(reply[1]) /\ Truthy(reply[1].access_token)

\* the credential the instance presents: ct and ds choose it when a client is
\* built, the other classes keep it in api_key
Credential == IF variant \in {"ct", "ds"} THEN KeyFor(self) ELSE self.api_key

\* every client object made so far carries key k
ClientsCarry(k) ==
    /\ ret # NoClient => ret[1].api_key = k
    /\ self.client # NoClient => self.client[1].api_key = k

\* the name each class gives the static-key mode
ApiKeyModes == {"api_key", "inference_api_key", "tts_api_key"}

\* the static key configured for the instance
ConfiguredKey ==
    IF variant = "tts" /\ Truthy(config.arg_key) THEN config.arg_key ELSE config.static_key

(* C1: with a base URL, a Keycloak client id and a client secret, when the  *)
(* token endpoint answers 200 with a non-empty access_token, resolution     *)
(* ends in mode keycloak with the token as credential; the static-key tier  *)
(* and the open tier are not consulted, and a configured static key never   *)
(* replaces the token in the instance or in a client built from it.         *)
C1_KeycloakFirst ==
    ( /\ Constructed
      /\ UrlTruthy(config.base_url) /\ Truthy(config.kc_id) /\ Truthy(config.kc_secret)
      /\ TokenGranted )
    => /\ pc = "ready"
       /\ self.auth_mode = "keycloak"
       /\ Credential = reply[1].access_token
       /\ ClientsCarry(reply[1].access_token)
       /\ tiers = <<>>

C1_Witness ==
    /\ variant = "ct" /\ pc = "ready" /\ TokenGranted
    /\ Truthy(config.static_key)
    /\ ret # NoClient /\ ret[1].api_key = "T"

(* C2: when the Keycloak client id or the client secret is missing, the     *)
(* constructors of the code-translation, doc-summarization and rag-chatbot  *)
(* clients post nothing to the token endpoint and the first thing they      *)
(* consult is the static key.                                               *)
C2_PartialKeycloakSkipsToken ==
    ( /\ Constructed
      /\ variant \in {"ct", "ds", "rag"}
      /\ ~(Truthy(config.kc_id) /\ Truthy(config.kc_secret)) )
    => /\ http_log = <<>>
       /\ reply = <<>>
       /\ tiers # <<>> /\ tiers[1] = "api_key"

C2_Witness ==
    /\ variant = "rag" /\ pc = "ready"
    /\ Truthy(config.kc_id) /\ ~Truthy(config.kc_secret) /\ UrlTruthy(config.base_url)
    /\ http_log = <<>> /\ self.auth_mode = "inference_api_key"

\* what C3 concludes: static-key mode, with exactly the configured key
StaticKeyApplied ==
    /\ pc = "ready"
    /\ self.auth_mode \in ApiKeyModes
    /\ Credential = ConfiguredKey
    /\ ClientsCarry(ConfiguredKey)

\* C3's case, in the classes the claim is drawn from
C3_Case ==
    /\ Constructed
    /\ variant \in {"ct", "rag", "tts"}
    /\ Truthy(ConfiguredKey)
    /\ ~TokenGranted

(* C3 as stated: for every config with a static key and no usable Keycloak  *)
(* tier, resolution ends in the static-key mode with the configured key as  *)
(* the credential.                                                          *)
C3_AsStated == C3_Case => StaticKeyApplied

(* C3 amended: the same, provided that for TTSClient a base URL is set      *)
(* (without one TTSClient returns before any tier, in mode none).           *)
C3_StaticKeyMode ==
    C3_Case =>
        IF variant = "tts" /\ ~UrlTruthy(config.base_url)
        THEN pc = "ready" /\ self.auth_mode = "none" /\ self.client = NoClient /\ tiers = <<>>
        ELSE StaticKeyApplied

C3_Witness ==
    /\ variant = "ct" /\ pc = "ready" /\ config.static_key = "K"
    /\ reply # <<>> /\ ~TokenGranted
    /\ self.auth_mode = "api_key" /\ ret # NoClient /\ ret[1].api_key = "K"

\* C4's case, in the classes the claim is drawn from
C4_Case ==
    /\ Constructed
    /\ variant \in {"ct", "rag", "llm"}
    /\ ~Truthy(ConfiguredKey)
    /\ ~TokenGranted

(* C4 as stated: with neither a usable Keycloak tier nor a static key,      *)
(* resolution completes normally in mode open with the sentinel "no-auth",  *)
(* and building a client succeeds and gives it that credential.             *)
C4_AsStated ==
    C4_Case =>
        /\ pc = "ready" /\ err = None
        /\ self.auth_mode = "open"
        /\ Credential = "no-auth"
        /\ ClientsCarry("no-auth")

(* C4 amended: in that case the code-translation client ends in mode open   *)
(* and, when its base URL is set, every client built carries "no-auth"      *)
(* (without a base URL the factory raises ValueError); the rag-chatbot      *)
(* constructor raises ValueError; LLMClient ends unconfigured, in mode none *)
(* with no credential and no client.                                        *)
C4_OpenMode ==
    C4_Case =>
        CASE variant = "ct" ->
                /\ pc = "ready" /\ self.auth_mode = "open" /\ Credential = "no-auth"
                /\ tiers = <<"api_key", "open">>
                /\ IF UrlTruthy(config.base_url)
                   THEN err = None /\ ClientsCarry("no-auth")
                   ELSE ret = NoClient
          [] variant = "rag" -> pc = "raised" /\ err = "ValueError"
          [] variant = "llm" ->
                /\ pc = "ready" /\ self.auth_mode = "none"
                /\ self.api_key = None /\ self.client = NoClient

C4_Witness ==
    /\ variant = "ct" /\ pc = "ready" /\ ~Truthy(config.static_key)
    /\ self.auth_mode = "open" /\ ret # NoClient /\ ret[1].api_key = "no-auth"

\* the token request was made and failed in one of the three ways
TokenFetchFailed == reply # <<>> /\ ~TokenGranted

(* C5: a failed token fetch (an exception, a non-200 status, or a 200 whose *)
(* body has no access_token) is not fatal: the constructor does not raise,  *)
(* does not end in mode keycloak, and goes on to consult the static key.    *)
C5_FetchFailureFallsThrough ==
    ( /\ Constructed
      /\ variant \in {"ct", "ds", "tts"}
      /\ TokenFetchFailed )
    => /\ err = None
       /\ self.auth_mode # "keycloak"
       /\ tiers # <<>> /\ tiers[1] = "api_key"

(* C6: after resolution, mode keycloak implies a non-empty token and the    *)
(* static-key mode implies a non-empty static key.                          *)
C6_CredentialNonEmpty ==
    Constructed =>
        /\ self.auth_mode = "keycloak" =>
              Truthy(IF variant \in {"ct", "ds"} THEN self.token ELSE self.api_key)
        /\ self.auth_mode \in ApiKeyModes => Truthy(self.api_key)

\* how many times the path segment v1 occurs in a URL
CountV1(u) ==
    Cardinality({i \in 1..Len(u) :
                    /\ i + 2 <= Len(u)
                    /\ SubSeq(u, i, i + 2) = <<"/", "v", "1">>
                    /\ (i + 3 <= Len(u) => u[i + 3] = "/")})

\* two slashes in a row
DoubledSlash(u) == \E i \in 1..Len(u) : i < Len(u) /\ u[i] = "/" /\ u[i + 1] = "/"

\* the client an instance has built: kept by the constructor (llm, tts) or
\* returned by the last factory call
BuiltClient == IF variant \in {"llm", "tts"} THEN self.client ELSE ret

(* C24: on a constructed APIClient of code-translation or                    *)
(* doc-summarization, is_authenticated() returns true exactly when the       *)
(* credential a client built now would carry is the token or the static key  *)
(* and not the sentinel "no-auth".                                           *)
C24_AuthenticatedIffRealCredential ==
    (variant \in {"ct", "ds"} /\ pc = "ready" /\ probe # NoProbe) =>
        (probe[1] <=> KeyFor(self) # "no-auth")

(* C22: the base URL of every client built by LLMClient, TTSClient or the    *)
(* doc-summarization APIClient contains the segment /v1 exactly once and no  *)
(* doubled slash, whatever the configured base URL ends with.                *)
C22_CanonicalSuffixOnce ==
    (variant \in {"llm", "ds", "tts"} /\ BuiltClient # NoClient) =>
        /\ CountV1(BuiltClient[1].base_url) = 1
        /\ ~DoubledSlash(BuiltClient[1].base_url)

---------------------------------------------------------------------------
(* Base-URL normalisation, applied to a URL and again to its own result *)

MaxUrlLen == 4

UrlChars == {"h", "/", "v", "1"}

\* every string over the characters S of at most n characters
StringsUpTo(S, n) == UNION {[1..k -> S] : k \in 0..n}

\* every setting unset
NoConfig ==
    [base_url |-> <<>>, kc_id |-> "", kc_secret |-> "", static_key |-> "", arg_key |-> ""]

UrlFunctions == {"TTS_final_base", "RAG_normalize_base", "RAG_client_base"}

Normalize(f, url) ==
    CASE f = "TTS_final_base" -> TTS_final_base(url)
      [] f = "RAG_normalize_base" -> RAG_normalize_base(url)
      [] f = "RAG_client_base" -> RAG_client_base(url)

\* the value the next application takes: the input, then the last result
Current(h) == IF h.values = <<>> THEN h.args[1] ELSE h.values[Len(h.values)]

Url_Normalize ==
    /\ fn.f \in UrlFunctions
    /\ Len(fn.values) < 2
    /\ fn' = [fn EXCEPT !.values = Append(@, Normalize(fn.f, Current(fn)))]
    /\ UNCHANGED <<authVars, gen, batch, glob, probe>>

InitUrl ==
    /\ variant \in {"rag", "tts"}
    /\ config = NoConfig
    /\ pc = "new"
    /\ self = Fields(<<>>, None, None, "", NoClient)
    /\ reply = <<>>
    /\ http_log = <<>>
    /\ tiers = <<>>
    /\ ret = NoClient
    /\ err = None
    /\ gen = GenIdle
    /\ batch = BatchIdle
    /\ glob = GlobIdle
    /\ probe = NoProbe
    /\ \E f \in UrlFunctions, url \in StringsUpTo(UrlChars, MaxUrlLen) :
          /\ (variant = "tts") = (f = "TTS_final_base")
          /\ fn = [f |-> f, args |-> <<url>>, values |-> <<>>]

NextUrl == Url_Normalize

SpecUrl == InitUrl /\ [][NextUrl]_vars

\* C11: normalising a base URL twice gives what normalising it once gives:
\* the result of the second application equals the result of the first.
C11_NormalizeIdempotent ==
    (fn.f \in UrlFunctions /\ Len(fn.values) = 2) => fn.values[2] = fn.values[1]

\* a URL with trailing slashes and no /v1 was normalised, which changed it,
\* and normalised again
C11_Witness ==
    /\ fn.f \in {"TTS_final_base", "RAG_client_base"}
    /\ Len(fn.values) = 2
    /\ Len(fn.args[1]) > 1
    /\ fn.args[1][Len(fn.args[1])] = "/"
    /\ ~EndsWithV1(RStrip(fn.args[1]))
    /\ fn.values[1] = RStrip(fn.args[1]) \o <<"/", "v", "1">>


---------------------------------------------------------------------------
(* code-translation: APIClient._strip_code_fences.  A text is a sequence of *)
(* characters; "\n" is the newline character.                               *)

MaxTextLen == 5

MaxBodyLen == 3

\* the backtick character
BackTick == "BACKTICK"

\* a backtick, the two whitespace characters, a character that is a language
\* tag by itself (in either case) and a character that is not
TextChars == {BackTick, "\n", " ", "c", "C", "x"}

IsSpace(ch) == ch \in {" ", "\n"}

RECURSIVE WsLStrip(_)
\* str.lstrip()
WsLStrip(t) == IF Len(t) > 0 /\ IsSpace(t[1]) THEN WsLStrip(SubSeq(t, 2, Len(t))) ELSE t

RECURSIVE WsRStrip(_)
\* str.rstrip()
WsRStrip(t) ==
    IF Len(t) > 0 /\ IsSpace(t[Len(t)]) THEN WsRStrip(SubSeq(t, 1, Len(t) - 1)) ELSE t

\* str.strip()
WsStrip(t) == WsLStrip(WsRStrip(t))

Fence == <<BackTick, BackTick, BackTick>>

\* str.startswith("```")
StartsWithFence(t) == Len(t) >= 3 /\ SubSeq(t, 1, 3) = Fence

\* str.endswith("```")
EndsWithFence(t) == Len(t) >= 3 /\ SubSeq(t, Len(t) - 2, Len(t)) = Fence

\* t[3:-3]
Unfenced(t) == IF Len(t) > 6 THEN SubSeq(t, 4, Len(t) - 3) ELSE <<>>

\* 1 + str.find("\n"): the position of the first newline, 0 when there is none
FindNewline(t) ==
    IF \E i \in 1..Len(t) : t[i] = "\n"
    THEN CHOOSE i \in 1..Len(t) : t[i] = "\n" /\ \A j \in 1..(i - 1) : t[j] # "\n"
    ELSE 0

\* str.lower()
Lower(t) == [i \in 1..Len(t) |-> IF t[i] = "C" THEN "c" ELSE t[i]]

\* the set of language tags at line 188
KnownTags ==
    { <<"p", "y", "t", "h", "o", "n">>, <<"j", "a", "v", "a">>, <<"c">>,
      <<"c", "p", "p">>, <<"r", "u", "s", "t">>, <<"g", "o">>, <<"t", "s">>,
      <<"j", "s">>, <<"j", "a", "v", "a", "s", "c", "r", "i", "p", "t">>,
      <<"c", "s", "h", "a", "r", "p">> }

strip_code_fences(text) ==
    LET stripped == WsStrip(text)
        inner == IF StartsWithFence(stripped) /\ EndsWithFence(stripped)
                 THEN WsStrip(Unfenced(stripped)) ELSE stripped
        first_newline == FindNewline(inner)
        first_line == Lower(WsStrip(SubSeq(inner, 1, first_newline - 1)))
    IN  IF first_newline # 0 /\ first_line \in KnownTags
        THEN WsLStrip(SubSeq(inner, first_newline + 1, Len(inner)))
        ELSE inner

\* texts with no leading and no trailing whitespace
Bodies == {b \in StringsUpTo(TextChars, MaxBodyLen) : WsStrip(b) = b}

\* a fenced block: the opening fence and what follows it on its line, the
\* body, the closing fence on a line of its own
Fenced(tag, b) == Fence \o tag \o <<"\n">> \o b \o <<"\n">> \o Fence

\* the inputs: every short text, and every body in two pairs of fences
FenceTexts ==
    StringsUpTo(TextChars, MaxTextLen) \cup {Fenced(<<>>, Fenced(<<>>, b)) : b \in Bodies}

Text_Strip ==
    /\ fn.f = "_strip_code_fences"
    /\ Len(fn.values) < 2
    /\ fn' = [fn EXCEPT !.values = Append(@, strip_code_fences(Current(fn)))]
    /\ UNCHANGED <<authVars, gen, batch, glob, probe>>

\* args is <<text>>, or <<text, tag, body>> for a block built from a tag and a body
InitFence ==
    /\ variant = "ct"
    /\ config = NoConfig
    /\ pc = "new"
    /\ self = Fields(<<>>, None, None, "", NoClient)
    /\ reply = <<>>
    /\ http_log = <<>>
    /\ tiers = <<>>
    /\ ret = NoClient
    /\ err = None
    /\ gen = GenIdle
    /\ batch = BatchIdle
    /\ glob = GlobIdle
    /\ probe = NoProbe
    /\ \/ \E text \in FenceTexts :
             fn = [f |-> "_strip_code_fences", args |-> <<text>>, values |-> <<>>]
       \/ \E tag \in KnownTags, b \in Bodies :
             fn = [f |-> "_strip_code_fences", args |-> <<Fenced(tag, b), tag, b>>,
                   values |-> <<>>]

NextFence == Text_Strip

SpecFence == InitFence /\ [][NextFence]_vars

\* C12: stripping fences twice gives what stripping them once gives, for
\* every text: the result of the second application equals the first's.
C12_StripIdempotent ==
    (fn.f = "_strip_code_fences" /\ Len(fn.values) = 2) => fn.values[2] = fn.values[1]

\* C13: for every known tag and every body without leading or trailing
\* whitespace, stripping the block made of the fence, the tag, a newline, the
\* body, a newline and the fence yields the body exactly.
C13_FencedBlockYieldsBody ==
    (fn.f = "_strip_code_fences" /\ Len(fn.args) = 3 /\ Len(fn.values) >= 1)
        => fn.values[1] = fn.args[3]

---------------------------------------------------------------------------
(* LLMClient.generate_with_openai, wrapped by tenacity's @retry *)

\* stop_after_attempt(3)
STOP_AFTER_ATTEMPT == 3

\* What client.chat.completions.create does in one attempt: it raises, or it
\* answers with no choice, or with a first choice whose content is None, empty
\* or a text.
RemoteOutcomes ==
    { [kind |-> "exc",      content |-> None],
      [kind |-> "nochoice", content |-> None],
      [kind |-> "ok",       content |-> None],
      [kind |-> "ok",       content |-> ""],
      [kind |-> "ok",       content |-> "text"] }

\* one run of the function body, as attempt k: whether the remote call was
\* made, what it did, and what the body raised (NoExc: it returned value)
Attempt(k, remote, o, raised, value) ==
    [n |-> k, remote |-> remote, outcome |-> o, raised |-> raised, value |-> value]

generate_with_openai(s, k, o) ==
    IF s.client = NoClient
    THEN Attempt(k, FALSE, [kind |-> "none", content |-> None], Exc("ValueError", k), None)
    ELSE CASE o.kind = "exc" -> Attempt(k, TRUE, o, Exc("APIError", k), None)
           [] o.kind = "nochoice" -> Attempt(k, TRUE, o, Exc("IndexError", k), None)
           [] o.kind = "ok" /\ o.content = None ->
                  Attempt(k, TRUE, o, Exc("TypeError", k), None)
           [] OTHER -> Attempt(k, TRUE, o, NoExc, o.content)

\* retry, stopping one attempt early
retry_stop_early(g, a) ==
    LET log == Append(g.attempts, a)
    IN  IF a.raised = NoExc
        THEN [g EXCEPT !.status = "returned", !.attempts = log, !.result = a.value]
        ELSE IF a.n >= STOP_AFTER_ATTEMPT - 1
        THEN [g EXCEPT !.status = "raised", !.attempts = log, !.error = RetryError(a.raised)]
        ELSE [g EXCEPT !.attempts = log]

\* tenacity after an attempt (reraise is left at its default, False): a return
\* ends the call with the value; an exception ends it with RetryError once
\* stop_after_attempt is reached, and otherwise the call waits and runs again
retry(g, a) ==
    LET log == Append(g.attempts, a)
    IN  IF a.raised = NoExc
        THEN [g EXCEPT !.status = "returned", !.attempts = log, !.result = a.value]
        ELSE IF a.n >= STOP_AFTER_ATTEMPT
        THEN [g EXCEPT !.status = "raised", !.attempts = log, !.error = RetryError(a.raised)]
        ELSE [g EXCEPT !.attempts = log]

\* a caller awaits generate_with_openai on a constructed LLMClient
Gen_Call ==
    /\ variant = "llm" /\ pc = "ready"
    /\ gen.status \in {"idle", "returned", "raised"}
    /\ gen' = [GenIdle EXCEPT !.f = "generate_with_openai", !.status = "running"]
    /\ UNCHANGED <<authVars, batch, fn, glob, probe>>

\* Gen_Attempt, the attempt also fetching a new token
Gen_Attempt_refresh_token ==
    /\ gen.status = "running"
    /\ \E o \in RemoteOutcomes :
          gen' = retry(gen, generate_with_openai(self, Len(gen.attempts) + 1, o))
    /\ http_log' = Append(http_log, RStrip(self.base_url) \o TokenPath)
    /\ UNCHANGED <<variant, config, pc, self, reply, tiers, ret, err, batch, fn, glob, probe>>

\* the next attempt of the running call
Gen_Attempt ==
    /\ gen.status = "running"
    /\ \E o \in RemoteOutcomes :
          gen' = retry(gen, generate_with_openai(self, Len(gen.attempts) + 1, o))
    /\ UNCHANGED <<authVars, batch, fn, glob, probe>>

(* The completion calls of code-translation and rag-chatbot, which are not  *)
(* retried.  A text that is post-processed is a sequence of characters, and *)
(* an optional one is <<>> (None) or <<text>>.                              *)

\* client.chat.completions.create on a client whose base URL has no scheme and
\* host raises before anything is sent; otherwise the endpoint decides
Create(c, o) ==
    IF Len(c[1].base_url) > 0 /\ c[1].base_url[1] # "/" THEN o
    ELSE [o EXCEPT !.kind = "exc"]

\* What the endpoint of code-translation answers: as RemoteOutcomes, the
\* content being None, empty, plain code or code in a fenced block
CT_RemoteOutcomes ==
    { [kind |-> "exc",      content |-> <<>>],
      [kind |-> "nochoice", content |-> <<>>],
      [kind |-> "ok",       content |-> <<>>],
      [kind |-> "ok",       content |-> << <<>> >>],
      [kind |-> "ok",       content |-> << <<"x">> >>],
      [kind |-> "ok",       content |-> << Fenced(<<"c">>, <<"x">>) >>] }

translate_code(s, o) ==
    LET c == CT_get_openai_client(s)
        r == IF c.err = None THEN Create(c.ret, o) ELSE o
        content == IF r.content = <<>> THEN <<>> ELSE r.content[1]
    IN  IF c.err # None
        THEN Attempt(1, FALSE, [kind |-> "none", content |-> <<>>], Exc(c.err, 1), None)
        ELSE CASE r.kind = "exc" -> Attempt(1, TRUE, r, Exc("APIError", 1), None)
               [] r.kind = "nochoice" -> Attempt(1, TRUE, r, NoExc, <<>>)
               [] OTHER -> Attempt(1, TRUE, r, NoExc, strip_code_fences(content))

complete(s, o) ==
    LET c == RAG_get_inference_client(s)
        r == Create(c.ret, o)
    IN  CASE r.kind = "exc" -> Attempt(1, TRUE, r, Exc("APIError", 1), None)
          [] r.kind = "nochoice" -> Attempt(1, TRUE, r, NoExc, "")
          [] OTHER -> Attempt(1, TRUE, r, NoExc, IF Truthy(r.content) THEN r.content ELSE "")

chat_complete(s, o) ==
    LET c == RAG_get_inference_client(s)
        r == Create(c.ret, o)
    IN  CASE r.kind = "exc" -> Attempt(1, TRUE, r, Exc("APIError", 1), None)
          [] r.kind = "nochoice" -> Attempt(1, TRUE, r, NoExc, "")
          [] OTHER -> Attempt(1, TRUE, r, NoExc, IF Truthy(r.content) THEN r.content ELSE "")

\* a call of method f that ran its body once, as a: it returned or it raised
Call(f, a) ==
    [f |-> f, status |-> IF a.raised = NoExc THEN "returned" ELSE "raised",
     attempts |-> <<a>>, result |-> a.value, error |-> a.raised]

CT_Translate ==
    /\ variant = "ct" /\ pc = "ready"
    /\ \E o \in CT_RemoteOutcomes : gen' = Call("translate_code", translate_code(self, o))
    /\ UNCHANGED <<authVars, batch, fn, glob, probe>>

RAG_Complete ==
    /\ variant = "rag" /\ pc = "ready"
    /\ \E o \in RemoteOutcomes : gen' = Call("complete", complete(self, o))
    /\ UNCHANGED <<authVars, batch, fn, glob, probe>>

RAG_ChatComplete ==
    /\ variant = "rag" /\ pc = "ready"
    /\ \E o \in RemoteOutcomes : gen' = Call("chat_complete", chat_complete(self, o))
    /\ UNCHANGED <<authVars, batch, fn, glob, probe>>

InitGen == InitInstance({"ct", "rag", "llm"}, Configs)

NextGen ==
    \/ CT_Construct
    \/ RAG_Construct
    \/ LLM_Construct
    \/ CT_GetClient
    \/ RAG_GetClient
    \/ RAG_GetEmbeddingClient
    \/ CT_IsAuthenticated
    \/ LLM_IsAvailable
    \/ CT_Translate
    \/ RAG_Complete
    \/ RAG_ChatComplete
    \/ Gen_Call
    \/ Gen_Attempt

SpecGen == InitGen /\ [][NextGen]_vars

\* the remote call of attempt k was made and raised
RemoteFailed(k) ==
    /\ k <= Len(gen.attempts)
    /\ gen.attempts[k].remote /\ gen.attempts[k].outcome.kind = "exc"

(* C9: a generation call whose remote call fails on the first and second    *)
(* attempts is still running after them, and when the third attempt's       *)
(* remote call answers with a text the call returns that text and raises    *)
(* nothing.                                                                 *)
C9_ThirdAttemptResult ==
    (RemoteFailed(1) /\ RemoteFailed(2)) =>
        /\ Len(gen.attempts) = 2 => gen.status = "running" /\ gen.error = NoExc
        /\ ( /\ Len(gen.attempts) = 3
             /\ gen.attempts[3].remote
             /\ gen.attempts[3].outcome.kind = "ok"
             /\ gen.attempts[3].outcome.content # None )
           => /\ gen.status = "returned"
              /\ gen.result = gen.attempts[3].outcome.content
              /\ gen.error = NoExc

C9_Witness ==
    /\ RemoteFailed(1) /\ RemoteFailed(2)
    /\ Len(gen.attempts) = 3
    /\ gen.attempts[3].outcome = [kind |-> "ok", content |-> "text"]
    /\ gen.status = "returned" /\ gen.result = "text"

(* C10: a generation call whose remote call fails on every attempt ends by  *)
(* raising the last attempt's exception itself to the caller.               *)
C10_LastErrorReraised ==
    ( /\ gen.status = "raised"
      /\ \A k \in 1..Len(gen.attempts) : RemoteFailed(k) )
    => gen.error = gen.attempts[Len(gen.attempts)].raised

(* LLMClient under every setting of MAX_RETRIES *)

\* the largest settings.MAX_RETRIES
MaxRetriesSetting == 4

\* a configuration of llm-service together with its MAX_RETRIES
WithMaxRetries(c, n) ==
    [base_url |-> c.base_url, kc_id |-> c.kc_id, kc_secret |-> c.kc_secret,
     static_key |-> c.static_key, arg_key |-> c.arg_key, MAX_RETRIES |-> n]

\* a base URL, no Keycloak credentials, with and without INFERENCE_API_KEY
RetryConfigs ==
    {WithMaxRetries(c, n) :
        c \in {d \in Configs : /\ d.base_url = <<"h">> /\ d.kc_id = "" /\ d.kc_secret = ""
                                /\ d.arg_key = ""},
        n \in 1..MaxRetriesSetting}

InitRetry ==
    /\ variant = "llm"
    /\ config \in RetryConfigs
    /\ pc = "new"
    /\ self = Fields(<<>>, None, None, "", NoClient)
    /\ reply = <<>>
    /\ http_log = <<>>
    /\ tiers = <<>>
    /\ ret = NoClient
    /\ err = None
    /\ gen = GenIdle
    /\ batch = BatchIdle
    /\ fn = FnIdle
    /\ glob = GlobIdle
    /\ probe = NoProbe

NextRetry ==
    \/ LLM_Construct
    \/ Gen_Call
    \/ Gen_Attempt

SpecRetry == InitRetry /\ [][NextRetry]_vars

(* C23: a generation call makes at most MAX_RETRIES remote attempts, and a   *)
(* call whose remote call fails on every attempt ends after exactly          *)
(* MAX_RETRIES of them, for every configured MAX_RETRIES of at least 1.      *)
C23_AttemptsFollowMaxRetries ==
    /\ Cardinality({k \in 1..Len(gen.attempts) : gen.attempts[k].remote}) <= config.MAX_RETRIES
    /\ ( /\ gen.status = "raised"
         /\ \A k \in 1..Len(gen.attempts) : RemoteFailed(k) )
       => Len(gen.attempts) = config.MAX_RETRIES

(* C14: on an instance whose base URL is empty or unset no client is built   *)
(* (none returned by a factory, none kept by the constructor), and a call    *)
(* that needs one runs its body once, makes no remote call and ends at once  *)
(* by raising the configuration error itself: it is not retried.             *)
C14_EmptyBaseUrlIsConfigError ==
    (pc = "ready" /\ ~UrlTruthy(config.base_url)) =>
        /\ ret = NoClient
        /\ self.client = NoClient
        /\ Len(gen.attempts) <= 1
        /\ Len(gen.attempts) = 1 =>
              /\ ~gen.attempts[1].remote
              /\ gen.status = "raised"
              /\ gen.error = Exc("ValueError", 1)

(* C15: a completion-style call whose remote call answers with no choice     *)
(* returns the empty string and raises nothing.                              *)
C15_NoChoiceYieldsEmpty ==
    \A k \in 1..Len(gen.attempts) :
        (gen.attempts[k].remote /\ gen.attempts[k].outcome.kind = "nochoice") =>
            /\ gen.attempts[k].raised = NoExc
            /\ gen.status = "returned"
            /\ gen.error = NoExc
            /\ gen.result = IF variant = "ct" THEN <<>> ELSE ""

(* C21: once an instance is constructed, no step (a factory call, a         *)
(* generation call that returns or raises, a retry attempt, a predicate      *)
(* call) changes its auth mode, its token or its API key.                    *)
C21_ModeStable ==
    [][pc = "ready" => /\ self'.auth_mode = self.auth_mode
                       /\ self'.token = self.token
                       /\ self'.api_key = self.api_key]_vars

\* on one constructed instance a client was built, a generation call failed
\* and is_authenticated was called
C21_Witness ==
    /\ variant = "ct" /\ pc = "ready"
    /\ self.auth_mode = "keycloak"
    /\ ret # NoClient
    /\ gen.status = "raised" /\ gen.attempts[1].remote
    /\ probe = <<TRUE>>

(* C20: the only token requests of an instance are those of its             *)
(* construction, which makes at most one: a failed fetch is not repeated,    *)
(* and no generation call and no retry attempt posts to the token endpoint.  *)
C20_OneTokenRequest ==
    /\ Len(http_log) <= 1
    /\ Len(http_log) = Len(reply)
    /\ pc = "new" => http_log = <<>>

\* the constructor's one token fetch failed, and a generation call then ran
\* all its attempts, each making its remote call
C20_Witness ==
    /\ variant = "llm"
    /\ Len(http_log) = 1 /\ TokenFetchFailed
    /\ gen.status = "raised"
    /\ Len(gen.attempts) = STOP_AFTER_ATTEMPT
    /\ \A k \in 1..Len(gen.attempts) : gen.attempts[k].remote

---------------------------------------------------------------------------
(* TTSClient.generate_speech_batch and generate_speech *)

\* the most texts and voices of one batch call
MaxJobs == 5

\* the largest settings.MAX_CONCURRENT_REQUESTS
MaxLimit == 2

Min(a, b) == IF a <= b THEN a ELSE b

\* get_available_voices()
VoiceNames == <<"alloy", "echo", "fable", "onyx", "nova", "shimmer">>

\* the caller's lists: n distinct texts, m voices
Texts(n) == [i \in 1..n |-> <<"text", i>>]
Voices(m) == [i \in 1..m |-> VoiceNames[((i - 1) % Len(VoiceNames)) + 1]]

\* output_dir / f"segment_{i:03d}.mp3"
SegmentPath(i) == <<"segment", i>>

\* what is on disk at a path
NoFile == [exists |-> FALSE, data |-> <<>>]
File(data) == [exists |-> TRUE, data |-> data]

\* the audio the gateway synthesises for a text and a voice
Audio(text, voice) == << [text |-> text, voice |-> voice] >>

\* What client.audio.speech.create does for one job: it raises, or it answers
\* with the audio or with an empty body.
SpeechOutcomes == {"audio", "empty", "exc"}

\* Tasks, with every coroutine bound to the path of the last index
Tasks_late_binding(texts, voices) ==
    LET k == Min(Len(texts), Len(voices))
    IN  [i \in 1..k |->
            [text |-> texts[i], voice |-> voices[i], output_path |-> SegmentPath(k - 1),
             state |-> "waiting"]]

\* the loop over enumerate(zip(texts, voices)): one coroutine per pair, each
\* bound to the path of its index, not yet started
Tasks(texts, voices) ==
    [i \in 1..Min(Len(texts), Len(voices)) |->
        [text |-> texts[i], voice |-> voices[i], output_path |-> SegmentPath(i - 1),
         state |-> "waiting"]]

\* the paths appended in the same loop
OutputPaths(texts, voices) ==
    [i \in 1..Min(Len(texts), Len(voices)) |-> SegmentPath(i - 1)]

\* Acquire, with no gate at all
Acquire_unbounded(b) == TRUE

\* "async with semaphore": a waiting job enters when a permit is free
Acquire(b) == b.permits > 0

Remaining(b) == {i \in 1..Len(b.tasks) : b.tasks[i].state \in {"waiting", "running"}}

\* the jobs whose remote call has started and not finished
InFlight(b) == {i \in 1..Len(b.tasks) : b.tasks[i].state = "running"}

\* Gather, cancelling the jobs that are left when one has failed
Gather_cancel_siblings(b) ==
    IF b.status # "gathering" THEN b
    ELSE IF \E i \in 1..Len(b.tasks) : b.tasks[i].state = "failed"
    THEN [b EXCEPT !.status = "raised",
                   !.permits = b.limit,
                   !.tasks = [i \in 1..Len(b.tasks) |->
                                IF b.tasks[i].state \in {"waiting", "running"}
                                THEN [b.tasks[i] EXCEPT !.state = "cancelled"]
                                ELSE b.tasks[i]]]
    ELSE IF {i \in 1..Len(b.tasks) : b.tasks[i].state \in {"waiting", "running"}} = {}
    THEN [b EXCEPT !.status = "returned", !.result = b.output_paths]
    ELSE b

\* Gather, with return_exceptions=True
Gather_return_exceptions(b) ==
    IF b.status # "gathering" THEN b
    ELSE IF {i \in 1..Len(b.tasks) : b.tasks[i].state \in {"waiting", "running"}} = {}
    THEN [b EXCEPT !.status = "returned", !.result = b.output_paths]
    ELSE b

\* asyncio.gather(*...) without return_exceptions: the first exception of a
\* job is raised to the awaiting caller, and the call returns output_paths once
\* every job has returned; the other jobs are left running
Gather(b) ==
    IF b.status # "gathering" THEN b
    ELSE IF \E i \in 1..Len(b.tasks) : b.tasks[i].state = "failed"
    THEN [b EXCEPT !.status = "raised"]
    ELSE IF Remaining(b) = {}
    THEN [b EXCEPT !.status = "returned", !.result = b.output_paths]
    ELSE b

\* a caller awaits generate_speech_batch(texts, voices, output_dir)
Batch_Call ==
    /\ variant = "tts" /\ pc = "ready"
    /\ batch.status = "idle"
    /\ \E n \in 0..MaxJobs, m \in 0..MaxJobs, limit \in 0..MaxLimit :
          LET texts == Texts(n)
              voices == Voices(m)
              paths == OutputPaths(texts, voices)
          IN  batch' = Gather([BatchIdle EXCEPT
                                 !.status = "gathering",
                                 !.texts = texts, !.voices = voices,
                                 !.limit = limit, !.permits = limit,
                                 !.output_paths = paths,
                                 !.tasks = Tasks(texts, voices),
                                 !.files = [q \in {paths[i] : i \in 1..Len(paths)} |-> NoFile]])
    /\ UNCHANGED <<authVars, gen, fn, glob, probe>>

\* job i gets a permit and generate_speech starts: an unconfigured client
\* raises RuntimeError at once (the permit is released again), otherwise the
\* remote call is handed to the executor
Job_Start ==
    /\ \E i \in 1..Len(batch.tasks) :
          /\ batch.tasks[i].state = "waiting"
          /\ Acquire(batch)
          /\ batch' =
                IF self.client = NoClient
                THEN Gather([batch EXCEPT
                               !.tasks[i].state = "failed",
                               !.error = IF batch.status = "gathering"
                                         THEN Exc("RuntimeError", i) ELSE @])
                ELSE [batch EXCEPT !.tasks[i].state = "running", !.permits = @ - 1,
                                   !.late_start = @ \/ batch.status = "raised"]
    /\ UNCHANGED <<authVars, gen, fn, glob, probe>>

\* Job_Finish, a failing job keeping its permit
Job_Finish_leak_on_failure ==
    /\ \E i \in 1..Len(batch.tasks), o \in SpeechOutcomes :
          LET t == batch.tasks[i]
              audio_bytes == IF o = "audio" THEN Audio(t.text, t.voice) ELSE <<>>
          IN  /\ t.state = "running"
              /\ batch' =
                    IF o = "exc"
                    THEN Gather([batch EXCEPT
                                   !.tasks[i].state = "failed",
                                   !.error = IF batch.status = "gathering"
                                             THEN Exc("APIError", i) ELSE @])
                    ELSE Gather([batch EXCEPT
                                   !.tasks[i].state = "done",
                                   !.permits = @ + 1,
                                   !.late_done = @ \/ batch.status = "raised",
                                   !.files[t.output_path] = File(audio_bytes)])
    /\ UNCHANGED <<authVars, gen, fn, glob, probe>>

\* the remote call of job i ends: the audio is written to the job's path and
\* the job returns, or the exception is logged and re-raised; the permit is
\* released either way
Job_Finish ==
    /\ \E i \in 1..Len(batch.tasks), o \in SpeechOutcomes :
          LET t == batch.tasks[i]
              audio_bytes == IF o = "audio" THEN Audio(t.text, t.voice) ELSE <<>>
              early == \E j \in 1..(i - 1) : batch.tasks[j].state \in {"waiting", "running"}
          IN  /\ t.state = "running"
              /\ batch' =
                    IF o = "exc"
                    THEN Gather([batch EXCEPT
                                   !.tasks[i].state = "failed",
                                   !.permits = @ + 1,
                                   !.out_of_order = @ \/ early,
                                   !.error = IF batch.status = "gathering"
                                             THEN Exc("APIError", i) ELSE @])
                    ELSE Gather([batch EXCEPT
                                   !.tasks[i].state = "done",
                                   !.permits = @ + 1,
                                   !.out_of_order = @ \/ early,
                                   !.late_done = @ \/ batch.status = "raised",
                                   !.files[t.output_path] = File(audio_bytes)])
    /\ UNCHANGED <<authVars, gen, fn, glob, probe>>

\* a TTSClient built without Keycloak credentials, with or without a base URL
\* and a TTS_API_KEY
BatchConfigs ==
    {c \in Configs : /\ c.kc_id = "" /\ c.kc_secret = "" /\ c.arg_key = ""
                     /\ c.base_url \in {<<>>, <<"h">>}}

InitBatch == InitInstance({"tts"}, BatchConfigs)

NextBatch ==
    \/ TTS_Construct
    \/ Batch_Call
    \/ Job_Start
    \/ Job_Finish

SpecBatch == InitBatch /\ [][NextBatch]_vars

\* the event loop keeps running the jobs that can run, and every remote call
\* that was started ends
SpecBatchFair == SpecBatch /\ WF_vars(Job_Start) /\ WF_vars(Job_Finish)

(* C7: in a batch run with concurrency limit L, at every moment at most L   *)
(* remote speech calls have started and not finished, and the permits held  *)
(* are exactly those of the calls in flight.                                *)
C7_InFlightBounded ==
    /\ Cardinality(InFlight(batch)) <= batch.limit
    /\ batch.permits + Cardinality(InFlight(batch)) = batch.limit

C7_Witness ==
    /\ batch.limit = 2 /\ Len(batch.tasks) = 5
    /\ Cardinality(InFlight(batch)) = 2
    /\ \E i \in 1..5 : batch.tasks[i].state = "waiting"
    /\ \E i \in 1..5 : batch.tasks[i].state = "done"

(* C8: when a batch run returns, element i of the returned list is the path *)
(* given to job i before dispatch, job i is the job of input i, and the     *)
(* file at that path holds what job i's call answered, whatever order the   *)
(* jobs finished in.                                                        *)
C8_ResultIndexAligned ==
    batch.status = "returned" =>
        /\ Len(batch.result) = Len(batch.tasks)
        /\ \A i \in 1..Len(batch.tasks) :
              /\ batch.result[i] = batch.tasks[i].output_path
              /\ batch.tasks[i].text = batch.texts[i]
              /\ batch.tasks[i].voice = batch.voices[i]
              /\ batch.files[batch.result[i]].exists
              /\ batch.files[batch.result[i]].data \in
                    {<<>>, Audio(batch.texts[i], batch.voices[i])}
        /\ \A i, j \in 1..Len(batch.result) : i # j => batch.result[i] # batch.result[j]

C8_Witness ==
    /\ batch.status = "returned" /\ batch.out_of_order
    /\ Len(batch.result) >= 3
    /\ \A i \in 1..Len(batch.result) :
          batch.files[batch.result[i]].data = Audio(batch.texts[i], batch.voices[i])


(* C16: a speech call whose answer carries an empty audio payload fails: no  *)
(* file holding an empty payload is written and the job does not end as      *)
(* done.                                                                     *)
C16_EmptyAudioIsFailure ==
    \A i \in 1..Len(batch.tasks) :
        LET f == batch.files[batch.tasks[i].output_path]
        IN  /\ f.exists => f.data # <<>>
            /\ batch.tasks[i].state = "done" => f.exists /\ f.data # <<>>

(* C17: once a job of a batch run has failed and the failure has been        *)
(* raised to the caller, no sibling is cancelled: each is waiting, in        *)
(* flight or finished by its own call, and while siblings are left one of    *)
(* them can pass the gate or finish its remote call.                         *)
C17_SiblingsNotCancelled ==
    batch.status = "raised" =>
        /\ \A i \in 1..Len(batch.tasks) :
              batch.tasks[i].state \in {"waiting", "running", "done", "failed"}
        /\ Remaining(batch) # {} => ENABLED (Job_Start \/ Job_Finish)

\* after the failure was raised a waiting sibling passed the gate, a sibling
\* finished its remote call and wrote its file, and no job is left
C17_Witness ==
    /\ batch.status = "raised"
    /\ batch.late_start /\ batch.late_done
    /\ Remaining(batch) = {}
    /\ \E i \in 1..Len(batch.tasks) :
          /\ batch.tasks[i].state = "done"
          /\ batch.files[batch.tasks[i].output_path].data =
                Audio(batch.tasks[i].text, batch.tasks[i].voice)

(* C18: a batch run in which a job has failed never returns the list of      *)
(* paths: the call has raised the failure to its caller, and a call that     *)
(* returned had every job succeed.                                           *)
C18_FailureReachesCaller ==
    /\ (\E i \in 1..Len(batch.tasks) : batch.tasks[i].state = "failed") =>
          /\ batch.status = "raised"
          /\ batch.result = <<>>
          /\ batch.error # NoExc
          /\ batch.tasks[batch.error.attempt].state = "failed"
    /\ batch.status = "returned" =>
          \A i \in 1..Len(batch.tasks) : batch.tasks[i].state = "done"

\* one job failed while its siblings succeeded, and the call raised
C18_Witness ==
    /\ batch.status = "raised"
    /\ Remaining(batch) = {}
    /\ Cardinality({i \in 1..Len(batch.tasks) : batch.tasks[i].state = "failed"}) = 1
    /\ Cardinality({i \in 1..Len(batch.tasks) : batch.tasks[i].state = "done"}) >= 2


---------------------------------------------------------------------------
(* get_api_client of code-translation, doc-summarization and rag-chatbot:    *)
(* the module-level _api_client, read and written without a lock by the      *)
(* threads that call the accessor.  A thread can be preempted between the    *)
(* test, the assignment and the return, and the constructor blocks on the    *)
(* token request.                                                            *)

\* the threads calling get_api_client
MaxCallers == 2

\* the APIClient constructor of module v
APIClient(v, cfg, r) ==
    CASE v = "ct" -> CT_init_auth(cfg, r)
      [] v = "ds" -> DS_init_auth(cfg, r)
      [] v = "rag" -> RAG_configure_auth(cfg, r)

\* thread t evaluates "if _api_client is None"
Get_Check ==
    /\ \E t \in 1..Len(glob.callers) :
          /\ glob.callers[t].pc = "call"
          /\ glob' = [glob EXCEPT !.callers[t].pc =
                         IF glob.api_client = <<>> THEN "construct" ELSE "return"]
    /\ UNCHANGED <<authVars, gen, batch, fn, probe>>

Get_Construct_cache_failure ==
    /\ \E t \in 1..Len(glob.callers), r \in Replies :
          LET out == APIClient(variant, config, r)
              n == glob.constructed + 1
          IN  /\ glob.callers[t].pc = "construct"
              /\ glob' = IF out.err = None
                         THEN [glob EXCEPT !.api_client = <<n>>,
                                           !.resolutions = @ + 1,
                                           !.constructed = n,
                                           !.callers[t].pc = "return"]
                         ELSE [glob EXCEPT !.api_client = <<0>>,
                                           !.resolutions = @ + 1,
                                           !.callers[t].pc = "raised"]
              /\ pc' = IF out.err = None THEN "ready" ELSE "raised"
              /\ self' = out.self
              /\ reply' = out.reply
              /\ http_log' = http_log \o out.http
              /\ tiers' = out.tiers
              /\ err' = out.err
    /\ UNCHANGED <<variant, config, ret, gen, batch, fn, probe>>

\* thread t runs "_api_client = APIClient()": the n-th instance is <<n>>; a
\* constructor that raises leaves _api_client as it was
Get_Construct ==
    /\ \E t \in 1..Len(glob.callers), r \in Replies :
          LET out == APIClient(variant, config, r)
              n == glob.constructed + 1
          IN  /\ glob.callers[t].pc = "construct"
              /\ glob' = IF out.err = None
                         THEN [glob EXCEPT !.api_client = <<n>>,
                                           !.resolutions = @ + 1,
                                           !.constructed = n,
                                           !.callers[t].pc = "return"]
                         ELSE [glob EXCEPT !.resolutions = @ + 1,
                                           !.callers[t].pc = "raised"]
              /\ pc' = IF out.err = None THEN "ready" ELSE "raised"
              /\ self' = out.self
              /\ reply' = out.reply
              /\ http_log' = http_log \o out.http
              /\ tiers' = out.tiers
              /\ err' = out.err
    /\ UNCHANGED <<variant, config, ret, gen, batch, fn, probe>>

\* thread t runs "return _api_client"
Get_Return ==
    /\ \E t \in 1..Len(glob.callers) :
          /\ glob.callers[t].pc = "return"
          /\ glob' = [glob EXCEPT !.callers[t].pc = "returned",
                                  !.callers[t].got = glob.api_client]
    /\ UNCHANGED <<authVars, gen, batch, fn, probe>>

\* a base URL, and all combinations of the other settings
GlobConfigs == {c \in Configs : c.base_url = <<"h">> /\ c.arg_key = ""}

InitGlob ==
    /\ variant \in {"ct", "ds", "rag"}
    /\ config \in GlobConfigs
    /\ pc = "new"
    /\ self = Fields(<<>>, None, None, "", NoClient)
    /\ reply = <<>>
    /\ http_log = <<>>
    /\ tiers = <<>>
    /\ ret = NoClient
    /\ err = None
    /\ gen = GenIdle
    /\ batch = BatchIdle
    /\ fn = FnIdle
    /\ probe = NoProbe
    /\ glob = [GlobIdle EXCEPT
                 !.callers = [t \in 1..MaxCallers |-> [pc |-> "call", got |-> <<>>]]]

NextGlob ==
    \/ Get_Check
    \/ Get_Construct
    \/ Get_Return

SpecGlob == InitGlob /\ [][NextGlob]_vars

(* C19: however the calls of get_api_client interleave, the constructor      *)
(* (auth resolution) runs at most once, at most one APIClient is             *)
(* constructed, and every caller that returned got that one instance.        *)
C19_SingleInstance ==
    /\ glob.resolutions <= 1
    /\ glob.constructed <= 1
    /\ \A t, u \in 1..Len(glob.callers) :
          (glob.callers[t].pc = "returned" /\ glob.callers[u].pc = "returned")
             => /\ glob.callers[t].got = glob.callers[u].got
                /\ glob.callers[t].got = <<1>>


\* thread t is running the constructor and it raises / returns
ConstructionFails ==
    /\ glob'.resolutions = glob.resolutions + 1
    /\ glob'.constructed = glob.constructed

ConstructionSucceeds ==
    /\ glob'.resolutions = glob.resolutions + 1
    /\ glob'.constructed = glob.constructed + 1

\* the Keycloak tier is configured, so that resolution posts a token request
KeycloakConfigured == Truthy(config.kc_id) /\ Truthy(config.kc_secret)

(* C28: a construction that raises leaves _api_client unset, and a call that *)
(* tests the global while it is unset runs the constructor, each run posting *)
(* its own token request when Keycloak is configured; a call that tests the  *)
(* global after a construction succeeded does not run the constructor.       *)
C28_FailureIsNotCached ==
    /\ [](glob.constructed = 0 <=> glob.api_client = <<>>)
    /\ [][/\ ConstructionFails => glob'.api_client = glob.api_client
          /\ ConstructionSucceeds => glob'.api_client # <<>>
          /\ (glob'.resolutions # glob.resolutions /\ KeycloakConfigured)
                => Len(http_log') = Len(http_log) + 1
          /\ \A t \in 1..Len(glob.callers) :
                (glob.callers[t].pc = "call" /\ glob'.callers[t].pc # "call")
                   => (glob'.callers[t].pc = "construct" <=> glob.api_client = <<>>)]_vars

\* rag-chatbot: two calls each ran the resolution and raised, each with its
\* own token request, and the global is still unset
C28_Witness ==
    /\ variant = "rag"
    /\ KeycloakConfigured
    /\ glob.resolutions = 2
    /\ glob.constructed = 0
    /\ glob.api_client = <<>>
    /\ \A t \in 1..2 : glob.callers[t].pc = "raised"
    /\ Len(http_log) = 2


---------------------------------------------------------------------------
(* The pdf-podcast clients, configured or not: one generation call at a      *)
(* time and is_available                                                     *)

generate_speech_no_guard(s, text, voice, o) ==
    CASE o = "exc" -> Attempt(1, TRUE, [kind |-> o, content |-> None], Exc("APIError", 1), None)
      [] o = "empty" -> Attempt(1, TRUE, [kind |-> o, content |-> None], NoExc, <<>>)
      [] OTHER -> Attempt(1, TRUE, [kind |-> o, content |-> None], NoExc, Audio(text, voice))

\* TTSClient.generate_speech without an output path: what one call does when
\* the remote call has outcome o.  A client whose base URL has no scheme and
\* host raises before anything is sent.
generate_speech(s, text, voice, o) ==
    LET r == IF s.client # NoClient /\ Create(s.client, [kind |-> o]).kind = "exc"
             THEN "exc" ELSE o
    IN  IF s.client = NoClient
        THEN Attempt(1, FALSE, [kind |-> "none", content |-> None], Exc("RuntimeError", 1), None)
        ELSE CASE r = "exc" ->
                    Attempt(1, TRUE, [kind |-> r, content |-> None], Exc("APIError", 1), None)
               [] r = "empty" -> Attempt(1, TRUE, [kind |-> r, content |-> None], NoExc, <<>>)
               [] OTHER ->
                    Attempt(1, TRUE, [kind |-> r, content |-> None], NoExc, Audio(text, voice))

TTS_GenerateSpeech ==
    /\ variant = "tts" /\ pc = "ready"
    /\ \E o \in SpeechOutcomes :
          gen' = Call("generate_speech",
                      generate_speech(self, Texts(1)[1], Voices(1)[1], o))
    /\ UNCHANGED <<authVars, batch, fn, glob, probe>>

InitAvail == InitInstance({"llm", "tts"}, Configs)

NextAvail ==
    \/ LLM_Construct
    \/ TTS_Construct
    \/ Gen_Call
    \/ Gen_Attempt
    \/ TTS_GenerateSpeech
    \/ LLM_IsAvailable
    \/ TTS_IsAvailable

SpecAvail == InitAvail /\ [][NextAvail]_vars

\* the instance ended construction without a base URL or without a credential
Unconfigured == pc = "ready" /\ (~UrlTruthy(config.base_url) \/ ~Truthy(self.api_key))

(* C25: on an instance that ended construction unconfigured every attempt    *)
(* of a generation call raises without making a remote call, and             *)
(* is_available() returns true exactly when the base URL is set and a        *)
(* credential was resolved.                                                  *)
C25_UnconfiguredNeverCalls ==
    /\ Unconfigured =>
          \A k \in 1..Len(gen.attempts) :
              ~gen.attempts[k].remote /\ gen.attempts[k].raised # NoExc
    /\ (pc = "ready" /\ probe # NoProbe) => (probe[1] <=> ~Unconfigured)

\* a TTSClient with a base URL and no credential from any tier was asked for
\* speech, which raised, and is_available returned false
C25_Witness ==
    /\ variant = "tts" /\ Unconfigured
    /\ UrlTruthy(config.base_url) /\ TokenFetchFailed
    /\ gen.status = "raised" /\ gen.error = Exc("RuntimeError", 1)
    /\ probe = <<FALSE>>


(* C27: a batch call dispatches exactly one job per input text, in order,    *)
(* whatever the length of the voices list, and when it returns it returns    *)
(* as many paths as there are texts, pairwise distinct.                      *)
C27_OneJobPerText ==
    batch.status # "idle" =>
        /\ Len(batch.tasks) = Len(batch.texts)
        /\ \A i \in 1..Len(batch.tasks) : batch.tasks[i].text = batch.texts[i]
        /\ batch.status = "returned" =>
              /\ Len(batch.result) = Len(batch.texts)
              /\ \A i, j \in 1..Len(batch.result) :
                    i # j => batch.result[i] # batch.result[j]

(* C26: with a concurrency limit of at least 1 and every started remote call *)
(* ending, a batch call that is awaiting its jobs eventually returns or      *)
(* raises; and whenever no job of a run is left waiting or in flight, the    *)
(* free permits equal the limit, failed jobs included.                       *)
C26_BatchTerminates ==
    /\ (batch.status = "gathering" /\ batch.limit >= 1)
          ~> (batch.status \in {"returned", "raised"})
    /\ []((batch.status # "idle" /\ Remaining(batch) = {}) => batch.permits = batch.limit)

\* a run of at least three jobs in which a remote call failed has ended, and
\* every permit is free again
C26_Witness ==
    /\ batch.status = "raised" /\ batch.error.type = "APIError"
    /\ batch.limit >= 1 /\ Len(batch.tasks) >= 3
    /\ Remaining(batch) = {}
    /\ batch.permits = batch.limit

===========================================================================
